---- MODULE Spec2Model ----
(***************************************************************************)
(* Model of package idp (src/idp/idp.go): the decoder of identity provider *)
(* configuration records, IdentityProvider.UnmarshalYAML, and the three    *)
(* keystone constructors.                                                  *)
(*                                                                         *)
(* An IdentityProvider is a record [Type, Config]; Config is the nil       *)
(* interface value (NilConfig) or a *KeystoneParams, modelled as an        *)
(* address of the heap.  The decode primitive handed to UnmarshalYAML is   *)
(* a closure over a configuration record; it is modelled by the record and *)
(* by the set of decode targets on which the closure fails.                *)
(***************************************************************************)
EXTENDS Integers, Sequences, FiniteSets, TLC

\* ------------------------------------------------------------- bounds

\* Number of decode / constructor calls in one behaviour.
MaxOps == 2

\* ---------------------------------------------------------- constants

UbuntuSSO == "usso"
UbuntuSSOOAuth == "usso_oauth"
Agent == "agent"
Keystone == "keystone"
KeystoneUserpass == "keystone_userpass"
KeystoneToken == "keystone_token"

\* case UbuntuSSO: / case UbuntuSSOOAuth: / case Agent:
SingletonTypes == {UbuntuSSO, UbuntuSSOOAuth, Agent}
\* Faulty variant: the keystone case also takes the bare prefix "keystone_".
KeystoneTypesByPrefix == {Keystone, KeystoneUserpass, KeystoneToken, "keystone_"}

\* case Keystone, KeystoneUserpass, KeystoneToken:
KeystoneTypes == {Keystone, KeystoneUserpass, KeystoneToken}
RecognisedTypes == SingletonTypes \cup KeystoneTypes

\* ------------------------------------------------------------- values

\* A key the configuration record does not have.
Absent == "<absent>"

\* The nil interface{} value of IdentityProvider.Config.
NilConfig == 0

\* Addresses of KeystoneParams variables; a call allocates at most one.
Addr == 1 .. MaxOps

\* A heap cell that holds no KeystoneParams variable yet.
Free == [free |-> TRUE]

\* The zero value of IdentityProvider, IdentityProvider{}.
ZeroIdentityProvider == [Type |-> "", Config |-> NilConfig]

\* The zero value of KeystoneParams (var p KeystoneParams).
ZeroKeystoneParams == [Name |-> "", Domain |-> "", Description |-> "", URL |-> ""]

\* The destinations (*IdentityProvider) the caller decodes into or assigns to.
Dests == {"idpA", "idpB"}

\* ------------------------------------------------------------- errors

\* The nil error.
NilErr == [nil |-> TRUE]

\* The error of a failing decode primitive (a yaml error).
PrimitiveErr == [format |-> "yaml: unmarshal errors", args |-> <<>>, underlying |-> NilErr]

\* errgo.Newf(format, args...): a new error without underlying error.
Newf(format, args) == [format |-> format, args |-> args, underlying |-> NilErr]

\* errgo.Notef(err, format): a new error with err as its underlying error.
Notef(err, format) == [format |-> format, args |-> <<>>, underlying |-> err]

\* errgo.Mask(err): a new error with err as its underlying error, no message.
Mask(err) == [format |-> "", args |-> <<>>, underlying |-> err]

\* --------------------------------------------------- decode primitive

\* The value a string field of the target gets: the record's value for the
\* key, or the field's prior (zero) value when the record has no such key.
Field(rec, key, prior) == IF rec[key] = Absent THEN prior ELSE rec[key]

\* unmarshal(&t) with t of type struct{ Type string }.
unmarshalType(rec, fails) ==
    IF "type" \in fails
    THEN [err |-> PrimitiveErr, t |-> [Type |-> ""]]
    ELSE [err |-> NilErr, t |-> [Type |-> Field(rec, "type", "")]]

\* Faulty variant: Domain carries the yaml tag of Description.
unmarshalParamsWrongTag(rec, fails) ==
    IF "params" \in fails
    THEN [err |-> PrimitiveErr, p |-> ZeroKeystoneParams]
    ELSE [err |-> NilErr,
          p |-> [Name |-> Field(rec, "name", ZeroKeystoneParams.Name),
                 Domain |-> Field(rec, "description", ZeroKeystoneParams.Domain),
                 Description |-> Field(rec, "description", ZeroKeystoneParams.Description),
                 URL |-> Field(rec, "url", ZeroKeystoneParams.URL)]]

\* unmarshal(&p) with p of type KeystoneParams: each field from the key its
\* yaml tag names.
unmarshalParams(rec, fails) ==
    IF "params" \in fails
    THEN [err |-> PrimitiveErr, p |-> ZeroKeystoneParams]
    ELSE [err |-> NilErr,
          p |-> [Name |-> Field(rec, "name", ZeroKeystoneParams.Name),
                 Domain |-> Field(rec, "domain", ZeroKeystoneParams.Domain),
                 Description |-> Field(rec, "description", ZeroKeystoneParams.Description),
                 URL |-> Field(rec, "url", ZeroKeystoneParams.URL)]]

\* ---------------------------------------------------------------- state

VARIABLES
    UbuntuSSOIdentityProvider,      \* package-level var, idp.go:70
    UbuntuSSOOAuthIdentityProvider, \* package-level var, idp.go:76
    AgentIdentityProvider,          \* package-level var, idp.go:82
    heap,   \* Addr -> the KeystoneParams variable at that address, or Free
    dest,   \* Dests -> the IdentityProvider value the destination holds
    last,   \* the last call: its operation, inputs, returned error, trace
    nops    \* number of calls made

globals == <<UbuntuSSOIdentityProvider, UbuntuSSOOAuthIdentityProvider, AgentIdentityProvider>>
vars == <<UbuntuSSOIdentityProvider, UbuntuSSOOAuthIdentityProvider, AgentIdentityProvider,
          heap, dest, last, nops>>

\* ------------------------------------------------------------- inputs

Types == RecognisedTypes \cup {Absent, "", "bogus", "Keystone", "keystone_"}
Names == {Absent, "", "idm"}
URLs == {Absent, "", "https://example.test"}
Domains == {Absent, "example.com"}
Descriptions == {Absent, "Keystone server"}

\* A record with the discriminant t and every other key present and non-empty.
FullRecord(t) == [type |-> t, name |-> "idm", domain |-> "example.com",
                  description |-> "Keystone server", url |-> "https://example.test"]

\* A record with the discriminant t and no other key.
BareRecord(t) == [type |-> t, name |-> Absent, domain |-> Absent,
                  description |-> Absent, url |-> Absent]

\* The configuration records: every combination of the other keys for the
\* keystone family, the full and the bare record for every discriminant.
Records == [type : KeystoneTypes, name : Names, domain : Domains,
            description : Descriptions, url : URLs]
           \cup {FullRecord(t) : t \in Types} \cup {BareRecord(t) : t \in Types}

\* The decode targets on which the primitive can fail: the discriminant
\* struct or the KeystoneParams struct.
Failures == {{"type"}, {"params"}}

\* The decode primitives (the unmarshal argument): a closure over a record
\* that decodes every target, or one that fails on a target.
Closures == {[rec |-> r, fails |-> {}] : r \in Records}
            \cup {[rec |-> r, fails |-> f] :
                  r \in {FullRecord(t) : t \in Types},
                  f \in Failures}

\* The KeystoneParams values a caller hands to the constructors.
ParamValues == {ZeroKeystoneParams,
                [ZeroKeystoneParams EXCEPT !.Name = "idm"],
                [ZeroKeystoneParams EXCEPT !.URL = "https://example.test"],
                [Name |-> "idm", Domain |-> "example.com",
                 Description |-> "Keystone server", URL |-> "https://example.test"]}

NoRecord == [type |-> Absent, name |-> Absent, domain |-> Absent,
             description |-> Absent, url |-> Absent]

\* ------------------------------------------------------------ helpers

Allocated(h) == {a \in Addr : h[a] # Free}

\* The address of a new variable: one no live variable has.
NewAddr(h) == CHOOSE a \in Addr : h[a] = Free /\ \A b \in Addr : h[b] = Free => a <= b

\* Faulty variant: p is one package-level variable, shared by all calls.
AddrOfSharedP(h) == CHOOSE a \in Addr : \A b \in Addr : a <= b

\* var p KeystoneParams in unmarshalKeystone: a new variable in every call.
AddrOfP(h) == NewAddr(h)

\* ------------------------------------------------------- constructors

\* Faulty variant: the builder ignores t and always gives Type keystone.
newKeystoneIdentityProviderCollapsed(t, p) == [Type |-> Keystone, Config |-> p]

\* newKeystoneIdentityProvider(t, p): Type t, Config the pointer p.
newKeystoneIdentityProvider(t, p) == [Type |-> t, Config |-> p]

KeystoneIdentityProvider(p) == newKeystoneIdentityProvider(Keystone, p)

\* Faulty variant: the userpass constructor passes the Keystone tag.
KeystoneUserpassIdentityProviderAsKeystone(p) == newKeystoneIdentityProvider(Keystone, p)

KeystoneUserpassIdentityProvider(p) == newKeystoneIdentityProvider(KeystoneUserpass, p)

KeystoneTokenIdentityProvider(p) == newKeystoneIdentityProvider(KeystoneToken, p)

\* ------------------------------------------------------------ decoder

\* Faulty variant: URL is checked before Name.
unmarshalKeystoneURLFirst(t, rec, fails, h) ==
    LET u == unmarshalParams(rec, fails)
        p == u.p
        a == AddrOfP(h)
    IN  IF u.err # NilErr
        THEN [idp |-> ZeroIdentityProvider, err |-> Mask(u.err), heap |-> h,
              trace |-> <<"unmarshal(&p)">>]
        ELSE IF p.URL = ""
        THEN [idp |-> ZeroIdentityProvider, err |-> Newf("url not specified", <<>>),
              heap |-> h, trace |-> <<"unmarshal(&p)", "p.URL">>]
        ELSE IF p.Name = ""
        THEN [idp |-> ZeroIdentityProvider, err |-> Newf("name not specified", <<>>),
              heap |-> h, trace |-> <<"unmarshal(&p)", "p.URL", "p.Name">>]
        ELSE [idp |-> newKeystoneIdentityProvider(t, a), err |-> NilErr,
              heap |-> [h EXCEPT ![a] = p],
              trace |-> <<"unmarshal(&p)", "p.URL", "p.Name">>]

\* Faulty variant: the error of unmarshal(&p) is dropped and the zero p validated.
unmarshalKeystoneSwallow(t, rec, fails, h) ==
    LET u == unmarshalParams(rec, fails)
        p == u.p
        a == AddrOfP(h)
    IN  IF p.Name = ""
        THEN [idp |-> ZeroIdentityProvider, err |-> Newf("name not specified", <<>>),
              heap |-> h, trace |-> <<"unmarshal(&p)", "p.Name">>]
        ELSE IF p.URL = ""
        THEN [idp |-> ZeroIdentityProvider, err |-> Newf("url not specified", <<>>),
              heap |-> h, trace |-> <<"unmarshal(&p)", "p.Name", "p.URL">>]
        ELSE [idp |-> newKeystoneIdentityProvider(t, a), err |-> NilErr,
              heap |-> [h EXCEPT ![a] = p],
              trace |-> <<"unmarshal(&p)", "p.Name", "p.URL">>]

\* unmarshalKeystone(t, unmarshal): the returned IdentityProvider and error,
\* the heap after the call and the trace of the steps taken.  The local p
\* becomes a heap variable of its own when &p is stored in the result; on the
\* error returns nothing refers to it and the heap is as before.
unmarshalKeystone(t, rec, fails, h) ==
    LET u == unmarshalParams(rec, fails)
        p == u.p
        a == AddrOfP(h)
    IN  IF u.err # NilErr
        THEN [idp |-> ZeroIdentityProvider, err |-> Mask(u.err), heap |-> h,
              trace |-> <<"unmarshal(&p)">>]
        ELSE IF p.Name = ""
        THEN [idp |-> ZeroIdentityProvider, err |-> Newf("name not specified", <<>>),
              heap |-> h, trace |-> <<"unmarshal(&p)", "p.Name">>]
        ELSE IF p.URL = ""
        THEN [idp |-> ZeroIdentityProvider, err |-> Newf("url not specified", <<>>),
              heap |-> h, trace |-> <<"unmarshal(&p)", "p.Name", "p.URL">>]
        ELSE [idp |-> newKeystoneIdentityProvider(t, a), err |-> NilErr,
              heap |-> [h EXCEPT ![a] = p],
              trace |-> <<"unmarshal(&p)", "p.Name", "p.URL">>]

\* Faulty variant: one phase, the payload is decoded whatever the discriminant.
UnmarshalYAMLSinglePhase(idp, rec, fails, h) ==
    LET u == unmarshalType(rec, fails)
        t == u.t
        k == unmarshalKeystone(t.Type, rec, fails, h)
    IN  IF u.err # NilErr
        THEN [idp |-> idp, err |-> Notef(u.err, "cannot unmarshal identity provider type"),
              heap |-> h, trace |-> <<"unmarshal(&t)">>]
        ELSE IF t.Type = UbuntuSSO
        THEN [idp |-> UbuntuSSOIdentityProvider, err |-> NilErr, heap |-> h,
              trace |-> <<"unmarshal(&t)", "unmarshal(&p)">>]
        ELSE IF t.Type = UbuntuSSOOAuth
        THEN [idp |-> UbuntuSSOOAuthIdentityProvider, err |-> NilErr, heap |-> h,
              trace |-> <<"unmarshal(&t)", "unmarshal(&p)">>]
        ELSE IF t.Type = Agent
        THEN [idp |-> AgentIdentityProvider, err |-> NilErr, heap |-> h,
              trace |-> <<"unmarshal(&t)", "unmarshal(&p)">>]
        ELSE IF t.Type \in KeystoneTypes
        THEN [idp |-> k.idp,
              err |-> IF k.err # NilErr
                      THEN Notef(k.err, "cannot unmarshal keystone configuration")
                      ELSE NilErr,
              heap |-> k.heap,
              trace |-> <<"unmarshal(&t)">> \o k.trace]
        ELSE [idp |-> idp,
              err |-> Newf("unrecognised identity provider type %q", <<t.Type>>),
              heap |-> h, trace |-> <<"unmarshal(&t)", "unmarshal(&p)">>]

\* (idp *IdentityProvider).UnmarshalYAML(unmarshal), called on a destination
\* holding the value idp: the destination's value after the call, the
\* returned error, the heap after the call and the trace of the steps taken.
UnmarshalYAML(idp, rec, fails, h) ==
    LET u == unmarshalType(rec, fails)
        t == u.t
    IN  IF u.err # NilErr
        THEN [idp |-> idp, err |-> Notef(u.err, "cannot unmarshal identity provider type"),
              heap |-> h, trace |-> <<"unmarshal(&t)">>]
        ELSE IF t.Type = UbuntuSSO
        THEN [idp |-> UbuntuSSOIdentityProvider, err |-> NilErr, heap |-> h,
              trace |-> <<"unmarshal(&t)">>]
        ELSE IF t.Type = UbuntuSSOOAuth
        THEN [idp |-> UbuntuSSOOAuthIdentityProvider, err |-> NilErr, heap |-> h,
              trace |-> <<"unmarshal(&t)">>]
        ELSE IF t.Type = Agent
        THEN [idp |-> AgentIdentityProvider, err |-> NilErr, heap |-> h,
              trace |-> <<"unmarshal(&t)">>]
        ELSE IF t.Type \in KeystoneTypes
        THEN LET k == unmarshalKeystone(t.Type, rec, fails, h)
             IN  \* *idp, err = unmarshalKeystone(...): *idp is assigned
                 \* whatever the call returns, before err is looked at.
                 [idp |-> k.idp,
                  err |-> IF k.err # NilErr
                          THEN Notef(k.err, "cannot unmarshal keystone configuration")
                          ELSE NilErr,
                  heap |-> k.heap,
                  trace |-> <<"unmarshal(&t)">> \o k.trace]
        ELSE [idp |-> idp,
              err |-> Newf("unrecognised identity provider type %q", <<t.Type>>),
              heap |-> h, trace |-> <<"unmarshal(&t)">>]

\* ------------------------------------------------------------ actions

\* Faulty variant: the initialiser of UbuntuSSOOAuthIdentityProvider is a copy
\* of the one of UbuntuSSOIdentityProvider.
InitCopiedInitialiser ==
    /\ UbuntuSSOIdentityProvider = [Type |-> UbuntuSSO, Config |-> NilConfig]
    /\ UbuntuSSOOAuthIdentityProvider = [Type |-> UbuntuSSO, Config |-> NilConfig]
    /\ AgentIdentityProvider = [Type |-> Agent, Config |-> NilConfig]
    /\ heap = [a \in Addr |-> Free]
    /\ dest = [d \in Dests |-> ZeroIdentityProvider]
    /\ last = [op |-> "init", d |-> "", rec |-> [type |-> Absent, name |-> Absent,
               domain |-> Absent, description |-> Absent, url |-> Absent], fails |-> {},
               err |-> NilErr, trace |-> <<>>, p |-> NilConfig]
    /\ nops = 0

\* The state at program start: the package-level variables as initialised,
\* no KeystoneParams variable, every destination the zero IdentityProvider.
Init ==
    /\ UbuntuSSOIdentityProvider = [Type |-> UbuntuSSO, Config |-> NilConfig]
    /\ UbuntuSSOOAuthIdentityProvider = [Type |-> UbuntuSSOOAuth, Config |-> NilConfig]
    /\ AgentIdentityProvider = [Type |-> Agent, Config |-> NilConfig]
    /\ heap = [a \in Addr |-> Free]
    /\ dest = [d \in Dests |-> ZeroIdentityProvider]
    /\ last = [op |-> "init", d |-> "", rec |-> NoRecord, fails |-> {},
               err |-> NilErr, trace |-> <<>>, p |-> NilConfig]
    /\ nops = 0

\* The caller decodes a record into destination d.
UnmarshalYAMLCall(d, rec, fails) ==
    /\ nops < MaxOps
    /\ Allocated(heap) # Addr
    /\ \E r \in {UnmarshalYAML(dest[d], rec, fails, heap)} :
           /\ dest' = [dest EXCEPT ![d] = r.idp]
           /\ heap' = r.heap
           /\ last' = [op |-> "UnmarshalYAML", d |-> d, rec |-> rec, fails |-> fails,
                       err |-> r.err, trace |-> r.trace, p |-> NilConfig]
    /\ nops' = nops + 1
    /\ UNCHANGED globals

\* The caller assigns the result of constructor op, called with the pointer
\* p, to destination d.  h is the heap at the call: the one before, or the
\* one before with the caller's new KeystoneParams variable at p.
ConstructorCall(op, idp, d, p, h) ==
    /\ nops < MaxOps
    /\ dest' = [dest EXCEPT ![d] = idp]
    /\ heap' = h
    /\ last' = [op |-> op, d |-> d, rec |-> NoRecord, fails |-> {},
                err |-> NilErr, trace |-> <<>>, p |-> p]
    /\ nops' = nops + 1
    /\ UNCHANGED globals

\* The pointers a caller can pass: to a live variable, or to a new one.
CallerHeaps == {[p |-> a, heap |-> heap] : a \in Allocated(heap)}
               \cup IF Allocated(heap) = Addr THEN {}
                    ELSE {[p |-> NewAddr(heap), heap |-> [heap EXCEPT ![NewAddr(heap)] = v]] :
                          v \in ParamValues}

KeystoneIdentityProviderCall(d, c) ==
    ConstructorCall("KeystoneIdentityProvider", KeystoneIdentityProvider(c.p), d, c.p, c.heap)

KeystoneUserpassIdentityProviderCall(d, c) ==
    ConstructorCall("KeystoneUserpassIdentityProvider",
                    KeystoneUserpassIdentityProvider(c.p), d, c.p, c.heap)

KeystoneTokenIdentityProviderCall(d, c) ==
    ConstructorCall("KeystoneTokenIdentityProvider",
                    KeystoneTokenIdentityProvider(c.p), d, c.p, c.heap)

Next ==
    \/ \E d \in Dests, c \in Closures : UnmarshalYAMLCall(d, c.rec, c.fails)
    \/ \E d \in Dests, c \in CallerHeaps : KeystoneIdentityProviderCall(d, c)
    \/ \E d \in Dests, c \in CallerHeaps : KeystoneUserpassIdentityProviderCall(d, c)
    \/ \E d \in Dests, c \in CallerHeaps : KeystoneTokenIdentityProviderCall(d, c)

Spec == Init /\ [][Next]_vars

\* ------------------------------------------------- vocabulary of the claims

\* The discriminants as the specification lists them.
SingletonTags == {"usso", "usso_oauth", "agent"}
KeystoneFamily == {"keystone", "keystone_userpass", "keystone_token"}
SixDiscriminants == SingletonTags \cup KeystoneFamily

\* The last call was a decode / a constructor.
Decoded == last.op = "UnmarshalYAML"
Constructed == last.op \in {"KeystoneIdentityProvider", "KeystoneUserpassIdentityProvider",
                            "KeystoneTokenIdentityProvider"}
Succeeded == last.err = NilErr

\* The discriminant string of a record: the empty string when the key is absent.
Tag(rec) == IF rec.type = Absent THEN "" ELSE rec.type

\* A key that is absent or empty / the string a key stands for.
Missing(x) == x \in {Absent, ""}
Str(x) == IF x = Absent THEN "" ELSE x

\* The decode primitive failed on no target the decoder uses for the record.
StructurallyDecodable(rec, fails) ==
    /\ "type" \notin fails
    /\ Tag(rec) \in KeystoneFamily => "params" \notin fails

\* The innermost error of a chain of wrapped errors.
RECURSIVE RootCause(_)
RootCause(err) == IF err.underlying = NilErr THEN err ELSE RootCause(err.underlying)

\* The errors of the taxonomy, as the decoder returns them.
UnrecognizedType(s) == Newf("unrecognised identity provider type %q", <<s>>)
MissingField(f) ==
    Notef(Newf(IF f = "name" THEN "name not specified" ELSE "url not specified", <<>>),
          "cannot unmarshal keystone configuration")

\* ------------------------------------------------------------------ C1

\* C1: decoding a record with one of the six recognized discriminants that is
\* otherwise valid (name and url non-empty for the keystone family) succeeds,
\* and the Type of the result is exactly the record's tag.
C1_TypeMatchesTag ==
    (/\ Decoded
     /\ StructurallyDecodable(last.rec, last.fails)
     /\ Tag(last.rec) \in SixDiscriminants
     /\ Tag(last.rec) \in KeystoneFamily =>
            ~Missing(last.rec.name) /\ ~Missing(last.rec.url))
    => /\ Succeeded
       /\ dest[last.d].Type = last.rec.type

C1_Witness ==
    /\ Decoded /\ Succeeded
    /\ last.rec.type = "keystone_token"
    /\ dest[last.d].Type = "keystone_token"
    /\ \E e \in Dests : dest[e].Type = "keystone_userpass"

\* ------------------------------------------------------------------ C2

\* C2: decoding a record whose discriminant is none of the six (absent and
\* empty included) fails with the unrecognized-type error carrying that
\* string, and leaves every destination and the heap as they were.
C2_UnrecognizedRejected ==
    [][(/\ Decoded'
        /\ "type" \notin last'.fails
        /\ Tag(last'.rec) \notin SixDiscriminants)
       => /\ last'.err = UnrecognizedType(Tag(last'.rec))
          /\ last'.err # NilErr
          /\ dest' = dest
          /\ heap' = heap]_vars

C2_Witness ==
    /\ Decoded
    /\ last.rec = FullRecord("keystone_")
    /\ last.err = UnrecognizedType("keystone_")
    /\ dest[last.d].Type = "keystone"

\* ------------------------------------------------------------------ C3

\* C3: for a structurally decodable keystone-family record the outcome is
\* fixed by name and url alone: MissingField("name") when name is absent or
\* empty, else MissingField("url") when url is absent or empty, else success.
C3_RequiredFields ==
    (/\ Decoded
     /\ Tag(last.rec) \in KeystoneFamily
     /\ StructurallyDecodable(last.rec, last.fails))
    => last.err = IF Missing(last.rec.name) THEN MissingField("name")
                  ELSE IF Missing(last.rec.url) THEN MissingField("url")
                  ELSE NilErr

C3_Witness ==
    /\ Decoded
    /\ last.rec.type = "keystone_userpass"
    /\ Missing(last.rec.name) /\ Missing(last.rec.url)
    /\ last.rec.domain # Absent
    /\ last.err = MissingField("name")

\* ------------------------------------------------------------------ C4

\* C4: the payload of a successfully decoded keystone-family record has the
\* record's name, url, domain and description, the empty string standing for
\* an omitted domain or description.
C4_PayloadFromRecord ==
    (Decoded /\ Succeeded /\ Tag(last.rec) \in KeystoneFamily)
    => /\ dest[last.d].Config \in Addr
       /\ heap[dest[last.d].Config] =
              [Name |-> last.rec.name, URL |-> last.rec.url,
               Domain |-> Str(last.rec.domain),
               Description |-> Str(last.rec.description)]

C4_Witness ==
    /\ Decoded /\ Succeeded
    /\ last.rec = [type |-> "keystone", name |-> "idm", url |-> "https://example.test",
                   domain |-> Absent, description |-> Absent]
    /\ heap[dest[last.d].Config] =
           [Name |-> "idm", URL |-> "https://example.test", Domain |-> "", Description |-> ""]

\* ------------------------------------------------------------------ C5

\* C5: after any calls, decoding a record with a singleton discriminant gives
\* the value with that Type and no payload, whatever other keys the record
\* has; destinations holding the same singleton discriminant are equal.
C5_SingletonStability ==
    /\ (Decoded /\ "type" \notin last.fails /\ Tag(last.rec) \in SingletonTags)
       => /\ Succeeded
          /\ dest[last.d] = [Type |-> last.rec.type, Config |-> NilConfig]
    /\ \A d, e \in Dests :
          (dest[d].Type \in SingletonTags /\ dest[d].Type = dest[e].Type)
          => dest[d] = dest[e]

C5_Witness ==
    /\ nops = 2
    /\ Decoded /\ Succeeded
    /\ last.rec = FullRecord("usso_oauth")
    /\ \A d \in Dests : dest[d] = [Type |-> "usso_oauth", Config |-> NilConfig]

\* ------------------------------------------------------------------ C6

\* The discriminant the specification gives each constructor.
ConstructorTag(op) ==
    CASE op = "KeystoneIdentityProvider" -> "keystone"
      [] op = "KeystoneUserpassIdentityProvider" -> "keystone_userpass"
      [] op = "KeystoneTokenIdentityProvider" -> "keystone_token"

\* C6: a constructor called with p returns the provider with its own
\* discriminant and with payload p, whatever p's fields are, and leaves the
\* KeystoneParams at p and everything else as they were.
C6_Constructors ==
    [][Constructed'
       => /\ dest'[last'.d] = [Type |-> ConstructorTag(last'.op), Config |-> last'.p]
          /\ last'.err = NilErr
          /\ last'.p \in Allocated(heap')
          /\ \A a \in Allocated(heap) : heap'[a] = heap[a]
          /\ \A e \in Dests \ {last'.d} : dest'[e] = dest[e]]_vars

C6_Witness ==
    /\ Constructed
    /\ last.op = "KeystoneUserpassIdentityProvider"
    /\ heap[last.p].Name = "" /\ heap[last.p].URL # ""
    /\ \A d \in Dests : dest[d].Config = last.p
    /\ \E d \in Dests : dest[d].Type = "keystone"
    /\ \E d \in Dests : dest[d].Type = "keystone_userpass"

\* ------------------------------------------------------------------ C7

\* C7: when the decode primitive fails on the discriminant, or on the payload
\* of a keystone-family record, the decode fails with an error whose chain of
\* underlying errors ends in the primitive's error.
C7_DecodeFailurePropagated ==
    (/\ Decoded
     /\ \/ "type" \in last.fails
        \/ Tag(last.rec) \in KeystoneFamily /\ "params" \in last.fails)
    => /\ last.err # NilErr
       /\ last.err # PrimitiveErr
       /\ RootCause(last.err) = PrimitiveErr

C7_Witness ==
    /\ Decoded
    /\ last.rec.type = "keystone_token"
    /\ last.fails = {"params"}
    /\ last.err.underlying.underlying = PrimitiveErr

\* ------------------------------------------------------------------ C8

\* C8: no call changes the provider held by a destination other than the one
\* it writes, nor any live KeystoneParams, nor the package-level singletons;
\* the payload of a successful keystone-family decode is a new variable that
\* nothing referred to before.
C8_Immutable ==
    [][/\ \A e \in Dests \ {last'.d} : dest'[e] = dest[e]
       /\ \A a \in Allocated(heap) : heap'[a] = heap[a]
       /\ globals' = globals
       /\ (Decoded' /\ Succeeded' /\ Tag(last'.rec) \in KeystoneFamily)
          => /\ dest'[last'.d].Config \in Allocated(heap') \ Allocated(heap)
             /\ \A e \in Dests : dest[e].Config # dest'[last'.d].Config]_vars

C8_Witness ==
    /\ nops = 2
    /\ Decoded /\ Succeeded
    /\ Tag(last.rec) \in KeystoneFamily
    /\ \A d \in Dests : dest[d].Config \in Addr
    /\ \E d, e \in Dests : /\ dest[d].Config # dest[e].Config
                           /\ heap[dest[d].Config] # heap[dest[e].Config]

\* ------------------------------------------------------------------ C9

\* The positions of a trace at which the step s was taken.
Steps(trace, s) == {i \in 1 .. Len(trace) : trace[i] = s}

\* The number of calls of the decode primitive in a trace.
PrimitiveCalls(trace) ==
    Cardinality(Steps(trace, "unmarshal(&t)") \cup Steps(trace, "unmarshal(&p)"))

\* C9: a decode calls the primitive first on the discriminant; it calls it on
\* the payload afterwards and only for a keystone-family discriminant, so once
\* for the other types and for a failed discriminant decode and at most twice
\* otherwise; name and url are looked at only after the payload was decoded.
C9_TwoPhase ==
    Decoded
    => /\ last.trace[1] = "unmarshal(&t)"
       /\ Steps(last.trace, "unmarshal(&t)") = {1}
       /\ Steps(last.trace, "unmarshal(&p)") \subseteq {2}
       /\ Steps(last.trace, "unmarshal(&p)") # {}
          => "type" \notin last.fails /\ Tag(last.rec) \in KeystoneFamily
       /\ ("type" \in last.fails \/ Tag(last.rec) \notin KeystoneFamily)
          => PrimitiveCalls(last.trace) = 1
       /\ PrimitiveCalls(last.trace) <= 2
       /\ \A i \in Steps(last.trace, "p.Name") \cup Steps(last.trace, "p.URL") :
             /\ "params" \notin last.fails
             /\ \E j \in 1 .. (i - 1) : last.trace[j] = "unmarshal(&p)"

C9_Witness ==
    /\ Decoded
    /\ last.rec.type = "keystone"
    /\ last.trace = <<"unmarshal(&t)", "unmarshal(&p)", "p.Name", "p.URL">>
    /\ last.err = MissingField("url")

\* ------------------------------------------------------------------ C10

\* C10: a decode that returns an error leaves its destination as it was.
C10_NoEffectOnFailure ==
    [][(Decoded' /\ last'.err # NilErr) => dest'[last'.d] = dest[last'.d]]_vars

====
